---- MODULE Spec2Model ----
(***************************************************************************)
(* Backtracking Sudoku solver (backend/solver.py), puzzle generator        *)
(* (backend/generator.py) and the POST /solve handler (backend/main.py).   *)
(*                                                                         *)
(* The two recursive methods, SudokuSolver.solve and                       *)
(* SudokuSolver._count_solutions_recursive, are run as a machine with an   *)
(* explicit call stack: one frame per active invocation holding the cell   *)
(* (row, col) it branches on, the digit num its for loop is at, and (for   *)
(* the counter) its local count.  A grid is a sequence of 9 rows of 9      *)
(* cells; Cell and SetCell take the 0-based row and col of the Python      *)
(* code.                                                                   *)
(***************************************************************************)
EXTENDS Integers, Sequences, FiniteSets, TLC

VARIABLES
  grid,            \* the grid object the top-level caller passes / builds
  grid_copy,       \* the copy made by is_solvable / count_solutions
  puzzle,          \* SudokuGenerator._create_puzzle: the puzzle being carved
  work,            \* which grid object the running recursion mutates
  fn,              \* the recursive method running: "solve" or "count"
  stack,           \* its call stack, innermost frame last
  pc,              \* control position
  ok,              \* value returned by solve
  count,           \* value returned by _count_solutions_recursive
  limit,           \* the limit argument of count_solutions
  op,              \* the top-level operation in progress
  orig,            \* the caller's grid as it was when the operation was called
  positions,       \* _create_puzzle: the shuffled list of positions
  idx,             \* _create_puzzle: how many positions the for loop has taken
  removed_count,   \* _create_puzzle: removed_count
  cells_to_remove, \* _create_puzzle: cells_to_remove
  original_value,  \* _create_puzzle: original_value of the current position
  difficulty,      \* generate_puzzle: difficulty
  request,         \* solve_sudoku: request.grid
  response,        \* solve_sudoku: the HTTP response
  exc,             \* solve_sudoku: status of the HTTPException in flight, 0 if none
  invoked          \* solve_sudoku: whether solver.solve has been called

vars == <<grid, grid_copy, puzzle, work, fn, stack, pc, ok, count, limit, op, orig,
          positions, idx, removed_count, cells_to_remove, original_value,
          difficulty, request, response, exc, invoked>>

genVars == <<puzzle, positions, idx, removed_count, cells_to_remove,
             original_value, difficulty>>
httpVars == <<request, response, exc, invoked>>

-----------------------------------------------------------------------------
(* SudokuSolver.__init__ *)
size == 9
box_size == 3

Idx == 0 .. (size - 1)
Digits == 1 .. 9                       \* range(1, 10)
Cells == Idx \X Idx

\* grid[row][col] and grid[row][col] = v, row and col counted from 0
Cell(g, row, col) == g[row + 1][col + 1]
SetCell(g, row, col, v) == [g EXCEPT ![row + 1][col + 1] = v]
ZeroGrid == [r \in 1 .. size |-> [c \in 1 .. size |-> 0]]

\* The sample puzzle of main.py (the /generate fallback).
SampleGrid == <<
  <<5,3,0,0,7,0,0,0,0>>, <<6,0,0,1,9,5,0,0,0>>, <<0,9,8,0,0,0,0,6,0>>,
  <<8,0,0,0,6,0,0,0,3>>, <<4,0,0,8,0,3,0,0,1>>, <<7,0,0,0,2,0,0,0,6>>,
  <<0,6,0,0,0,0,2,8,0>>, <<0,0,0,4,1,9,0,0,5>>, <<0,0,0,0,8,0,0,7,9>> >>

-----------------------------------------------------------------------------
(* SudokuSolver: the pure helpers *)

\* is_valid without its 3x3 box loop
is_valid_no_box(g, row, col, num) ==
  /\ \A x \in Idx : Cell(g, row, x) # num
  /\ \A x \in Idx : Cell(g, x, col) # num

is_valid(g, row, col, num) ==
  /\ \A x \in Idx : Cell(g, row, x) # num
  /\ \A x \in Idx : Cell(g, x, col) # num
  /\ LET start_row == row - (row % box_size)
         start_col == col - (col % box_size)
     IN \A i \in 0 .. (box_size - 1) : \A j \in 0 .. (box_size - 1) :
          Cell(g, i + start_row, j + start_col) # num

\* Row-major scan for the first 0; <<-1, -1>> when there is none.
find_empty_cell(g) ==
  LET E == {k \in 0 .. (size * size - 1) : Cell(g, k \div size, k % size) = 0}
  IN IF E = {} THEN <<-1, -1>>
     ELSE LET k == CHOOSE k \in E : \A j \in E : k <= j
          IN <<k \div size, k % size>>

\* The digits the for loop of a frame still accepts, from num upwards.
ValidFrom(g, row, col, num) == {n \in Digits : n >= num /\ is_valid(g, row, col, n)}
MinOf(S) == CHOOSE n \in S : \A m \in S : n <= m

-----------------------------------------------------------------------------
(* The grid object the recursion works on *)

Work == IF work = "grid" THEN grid ELSE grid_copy

Write(row, col, v) ==
  IF work = "grid"
  THEN grid' = SetCell(grid, row, col, v) /\ UNCHANGED grid_copy
  ELSE grid_copy' = SetCell(grid_copy, row, col, v) /\ UNCHANGED grid

Top == stack[Len(stack)]
Pop == SubSeq(stack, 1, Len(stack) - 1)
SetTop(f) == [stack EXCEPT ![Len(stack)] = f]

\* solver.py:68 and :102, grid[row][col] = 0 after the recursive call (and
\* the variant that leaves the digit in place)
keep_placement(num) == num
backtrack_value(num) == 0

\* solver.py:77 and :85, grid_copy = [row[:] for row in grid]: the recursion
\* works on the copy (and the variant where it gets the caller's own grid)
alias_target == "grid"
copy_target == "grid_copy"

-----------------------------------------------------------------------------
(* SudokuSolver.solve, one invocation per frame *)

\* Entry: find_empty_cell, return True when the grid is full, else enter the loop.
SolveEnter ==
  /\ pc = "call" /\ fn = "solve"
  /\ LET cell == find_empty_cell(Work)
     IN IF cell[1] = -1
        THEN /\ ok' = TRUE
             /\ pc' = "ret"
             /\ UNCHANGED stack
        ELSE /\ stack' = Append(stack, [row |-> cell[1], col |-> cell[2],
                                         num |-> 1, count |-> 0])
             /\ pc' = "loop"
             /\ UNCHANGED ok
  /\ UNCHANGED <<grid, grid_copy, work, fn, count, limit, op, orig>>
  /\ UNCHANGED genVars /\ UNCHANGED httpVars

\* The for loop: skip the digits is_valid rejects, place the next valid one and
\* recurse; return False when the digits are exhausted.
SolveTry ==
  /\ pc = "loop" /\ fn = "solve"
  /\ LET f == Top
         cand == ValidFrom(Work, f.row, f.col, f.num)
     IN IF cand = {}
        THEN /\ stack' = Pop
             /\ ok' = FALSE
             /\ pc' = "ret"
             /\ UNCHANGED <<grid, grid_copy>>
        ELSE /\ Write(f.row, f.col, MinOf(cand))
             /\ stack' = SetTop([f EXCEPT !.num = MinOf(cand)])
             /\ pc' = "call"
             /\ UNCHANGED ok
  /\ UNCHANGED <<work, fn, count, limit, op, orig>>
  /\ UNCHANGED genVars /\ UNCHANGED httpVars

\* The recursive call returned into the frame on top: propagate True, or
\* reset the cell and go on with the next digit.
SolveReturn ==
  /\ pc = "ret" /\ fn = "solve" /\ stack # <<>>
  /\ LET f == Top
     IN IF ok
        THEN /\ stack' = Pop
             /\ pc' = "ret"
             /\ UNCHANGED <<grid, grid_copy>>
        ELSE /\ Write(f.row, f.col, backtrack_value(f.num))
             /\ stack' = SetTop([f EXCEPT !.num = f.num + 1])
             /\ pc' = "loop"
  /\ UNCHANGED <<work, fn, ok, count, limit, op, orig>>
  /\ UNCHANGED genVars /\ UNCHANGED httpVars

-----------------------------------------------------------------------------
(* SudokuSolver._count_solutions_recursive, one invocation per frame *)

\* solver.py:101, count += self._count_solutions_recursive(grid, limit) (and
\* the variant with = for +=)
count_assign(c, returned, lim) == returned
count_add(c, returned, lim) == c + returned

\* Entry: return 1 when the grid is full, else count = 0 and enter the loop.
CountEnter ==
  /\ pc = "call" /\ fn = "count"
  /\ LET cell == find_empty_cell(Work)
     IN IF cell[1] = -1
        THEN /\ count' = 1
             /\ pc' = "ret"
             /\ UNCHANGED stack
        ELSE /\ stack' = Append(stack, [row |-> cell[1], col |-> cell[2],
                                         num |-> 1, count |-> 0])
             /\ pc' = "loop"
             /\ UNCHANGED count
  /\ UNCHANGED <<grid, grid_copy, work, fn, ok, limit, op, orig>>
  /\ UNCHANGED genVars /\ UNCHANGED httpVars

\* The for loop: place the next valid digit and recurse; return the frame's
\* count when the digits are exhausted.
CountTry ==
  /\ pc = "loop" /\ fn = "count"
  /\ LET f == Top
         cand == ValidFrom(Work, f.row, f.col, f.num)
     IN IF cand = {}
        THEN /\ stack' = Pop
             /\ count' = f.count
             /\ pc' = "ret"
             /\ UNCHANGED <<grid, grid_copy>>
        ELSE /\ Write(f.row, f.col, MinOf(cand))
             /\ stack' = SetTop([f EXCEPT !.num = MinOf(cand)])
             /\ pc' = "call"
             /\ UNCHANGED count
  /\ UNCHANGED <<work, fn, ok, limit, op, orig>>
  /\ UNCHANGED genVars /\ UNCHANGED httpVars

\* The recursive call returned into the frame on top: add what it returned,
\* reset the cell, and return early once the frame's count reaches the limit.
CountReturn ==
  /\ pc = "ret" /\ fn = "count" /\ stack # <<>>
  /\ LET f == Top
         c == count_add(f.count, count, limit)
     IN /\ Write(f.row, f.col, backtrack_value(f.num))
        /\ IF c >= limit
           THEN /\ stack' = Pop
                /\ count' = c
                /\ pc' = "ret"
           ELSE /\ stack' = SetTop([f EXCEPT !.count = c, !.num = f.num + 1])
                /\ pc' = "loop"
                /\ UNCHANGED count
  /\ UNCHANGED <<work, fn, ok, limit, op, orig>>
  /\ UNCHANGED genVars /\ UNCHANGED httpVars

-----------------------------------------------------------------------------
(* The public methods of SudokuSolver, called on a caller's grid *)

ApiOps == {"solve", "is_solvable", "count_solutions"}

CallSolve ==
  /\ pc = "idle"
  /\ op' = "solve" /\ orig' = grid
  /\ work' = "grid" /\ fn' = "solve" /\ pc' = "call"
  /\ UNCHANGED <<grid, grid_copy, stack, ok, count, limit>>
  /\ UNCHANGED genVars /\ UNCHANGED httpVars

CallIsSolvable ==
  /\ pc = "idle"
  /\ op' = "is_solvable" /\ orig' = grid
  /\ grid_copy' = grid
  /\ work' = copy_target /\ fn' = "solve" /\ pc' = "call"
  /\ UNCHANGED <<grid, stack, ok, count, limit>>
  /\ UNCHANGED genVars /\ UNCHANGED httpVars

CallCountSolutions(lim) ==
  /\ pc = "idle"
  /\ op' = "count_solutions" /\ orig' = grid
  /\ limit' = lim
  /\ grid_copy' = grid
  /\ work' = copy_target /\ fn' = "count" /\ pc' = "call"
  /\ UNCHANGED <<grid, stack, ok, count>>
  /\ UNCHANGED genVars /\ UNCHANGED httpVars

\* The outermost invocation returned to the caller.
ApiReturn ==
  /\ pc = "ret" /\ stack = <<>> /\ op \in ApiOps
  /\ pc' = "done"
  /\ UNCHANGED <<grid, grid_copy, work, fn, stack, ok, count, limit, op, orig>>
  /\ UNCHANGED genVars /\ UNCHANGED httpVars

-----------------------------------------------------------------------------
(* Bounded inputs of the solver *)

MaxBlanks == 7
MaxLimit == 2

\* The unique completion of SampleGrid.
SolvedGrid == <<
  <<5,3,4,6,7,8,9,1,2>>, <<6,7,2,1,9,5,3,4,8>>, <<1,9,8,3,4,2,5,6,7>>,
  <<8,5,9,7,6,1,4,2,3>>, <<4,2,6,8,5,3,7,9,1>>, <<7,1,3,9,2,4,8,5,6>>,
  <<9,6,1,5,3,7,2,8,4>>, <<2,8,7,4,1,9,6,3,5>>, <<3,4,5,2,8,6,1,7,9>> >>

\* Cells of SolvedGrid a caller may blank, and the one it may overwrite.
EditCells == {<<3, 5>>, <<3, 8>>, <<4, 2>>, <<4, 5>>, <<4, 8>>, <<5, 2>>, <<5, 8>>}
PutCell == <<3, 8>>

Blanked(g, B) ==
  [r \in 1 .. size |-> [c \in 1 .. size |->
     IF <<r - 1, c - 1>> \in B THEN 0 ELSE g[r][c]]]

Inputs ==
  {SampleGrid, ZeroGrid}
  \cup {Blanked(SolvedGrid, B) : B \in {X \in SUBSET EditCells : Cardinality(X) <= MaxBlanks}}
  \cup {SetCell(Blanked(SolvedGrid, B), PutCell[1], PutCell[2], d) :
          B \in {X \in SUBSET (EditCells \ {PutCell}) : Cardinality(X) <= MaxBlanks},
          d \in Digits}

InitCommon ==
  /\ grid_copy = ZeroGrid /\ puzzle = ZeroGrid
  /\ work = "grid" /\ fn = "none" /\ stack = <<>>
  /\ ok = FALSE /\ count = 0 /\ limit = 0
  /\ op = "none"
  /\ positions = <<>> /\ idx = 0 /\ removed_count = 0 /\ cells_to_remove = 0
  /\ original_value = 0 /\ difficulty = "none"
  /\ response = [status |-> 0, success |-> FALSE, grid |-> <<>>]
  /\ exc = 0 /\ invoked = FALSE

Init ==
  /\ grid \in Inputs
  /\ request = <<>>
  /\ orig = grid
  /\ pc = "idle"
  /\ InitCommon

Next ==
  \/ CallSolve
  \/ CallIsSolvable
  \/ \E lim \in 1 .. MaxLimit : CallCountSolutions(lim)
  \/ SolveEnter
  \/ SolveTry
  \/ SolveReturn
  \/ CountEnter
  \/ CountTry
  \/ CountReturn
  \/ ApiReturn

Spec == Init /\ [][Next]_vars

-----------------------------------------------------------------------------
(* What a grid's completions are, stated without the search *)

Blanks(g) == {c \in Cells : Cell(g, c[1], c[2]) = 0}

\* The 27 units: rows, columns and 3x3 boxes.
Units ==
  {{<<r, c>> : c \in Idx} : r \in Idx}
  \cup {{<<r, c>> : r \in Idx} : c \in Idx}
  \cup {{<<br * box_size + i, bc * box_size + j>> :
           i \in 0 .. (box_size - 1), j \in 0 .. (box_size - 1)} :
        br \in 0 .. (box_size - 1), bc \in 0 .. (box_size - 1)}

\* No digit twice in a row, a column or a box.
ValidGrid(g) ==
  \A u \in Units : \A c \in u : \A d \in u :
    (c # d /\ Cell(g, c[1], c[2]) # 0) => Cell(g, c[1], c[2]) # Cell(g, d[1], d[2])

Complete(g) == Blanks(g) = {} /\ ValidGrid(g)

\* h keeps every digit g gives.
Agrees(g, h) == \A c \in Cells : Cell(g, c[1], c[2]) # 0 => Cell(h, c[1], c[2]) = Cell(g, c[1], c[2])

\* The digits no given cell of a unit of c holds.
Free(g, c) ==
  {d \in Digits : \A u \in Units : c \in u => \A e \in u : Cell(g, e[1], e[2]) # d}

\* Every way to write a free digit into each cell of B, the cells taken
\* independently of each other.
RECURSIVE Assignments(_, _)
Assignments(g, B) ==
  IF B = {} THEN {g}
  ELSE LET c == CHOOSE c \in B : TRUE
       IN UNION {{SetCell(h, c[1], c[2], d) : d \in Free(g, c)} :
                 h \in Assignments(g, B \ {c})}

\* The completions of g: the full grids without a repeated digit that keep
\* the digits of g.
Completions(g) == {h \in Assignments(g, Blanks(g)) : ValidGrid(h)}

\* Grids with more blanks than this are not enumerated.
MaxOracleBlanks == 12
Small(g) == Cardinality(Blanks(g)) <= MaxOracleBlanks

\* g has a completion: a known one, or one found by enumeration.
Solvable(g) ==
  \/ Complete(SolvedGrid) /\ Agrees(g, SolvedGrid)
  \/ Small(g) /\ Completions(g) # {}

-----------------------------------------------------------------------------
(* Claims about SudokuSolver, under Spec *)

\* C1: solve on a grid that has a completion returns True and leaves a full
\* grid with no repeated digit in a row, column or box that keeps every
\* given digit.
SolveCompletesSolvable ==
  (op = "solve" /\ pc = "done" /\ Solvable(orig)) =>
    /\ ok
    /\ Blanks(grid) = {}
    /\ ValidGrid(grid)
    /\ Agrees(orig, grid)

\* solve filled in a grid that had at least four blanks.
SolveFilledBlanks ==
  /\ op = "solve" /\ pc = "done" /\ ok
  /\ Cardinality(Blanks(orig)) >= 4
  /\ Complete(grid) /\ Agrees(orig, grid)

\* C2: solve on a grid that has no completion returns False, whether or not
\* the given digits conflict with each other.
SolveRejectsUnsolvable ==
  (op = "solve" /\ pc = "done" /\ Small(orig) /\ Completions(orig) = {}) => ~ok

\* C3: solve never writes a cell that was given, and when it returns False
\* the grid is cell for cell what it was at the call.
SolveFailureRestoresGrid ==
  (fn = "solve" /\ op \in {"solve", "is_solvable"}) =>
    /\ Agrees(orig, Work)
    /\ (pc = "done" /\ ~ok) => Work = orig

\* solve returned False on a grid whose first empty cell accepted a digit, so
\* that a placement was made and taken back.
SolveFailedAfterPlacing ==
  /\ op = "solve" /\ pc = "done" /\ ~ok
  /\ grid = orig
  /\ LET cell == find_empty_cell(orig)
     IN cell[1] # -1 /\ ValidFrom(orig, cell[1], cell[2], 1) # {}

\* C4: count_solutions returns at most limit, and exactly limit when the
\* grid has more completions than limit.
CountAtMostLimit ==
  (op = "count_solutions" /\ pc = "done") =>
    /\ count <= limit
    /\ (Small(orig) /\ Cardinality(Completions(orig)) > limit) => count = limit

\* C7: is_solvable and count_solutions leave the caller's grid as it was.
QueriesLeaveGridUnchanged ==
  op \in {"is_solvable", "count_solutions"} => grid = orig

\* is_solvable returned True: its copy was filled in while the caller's grid
\* still has its blanks.
IsSolvableFilledCopy ==
  /\ op = "is_solvable" /\ pc = "done" /\ ok
  /\ Blanks(grid) # {} /\ Blanks(grid_copy) = {}

\* C8: on a grid whose given digits do not conflict, count_solutions with
\* limit 2 returns 0 exactly when there is no completion, 1 exactly when
\* there is one, and 2 or more exactly when there are two or more.
CountClassifiesMultiplicity ==
  (op = "count_solutions" /\ pc = "done" /\ limit = 2
     /\ Small(orig) /\ ValidGrid(orig)) =>
    LET n == Cardinality(Completions(orig))
    IN /\ count = 0 <=> n = 0
       /\ count = 1 <=> n = 1
       /\ count >= 2 <=> n >= 2

\* count_solutions with limit 2 went through a grid with three completions.
CountSawThreeCompletions ==
  /\ op = "count_solutions" /\ pc = "done" /\ limit = 2
  /\ ValidGrid(orig) /\ Small(orig)
  /\ Cardinality(Completions(orig)) = 3
  /\ count >= 2

-----------------------------------------------------------------------------
(* SudokuGenerator.generate_complete_sudoku *)

\* generator.py:44 with the box index dropped: numbers[i + j]
fill_box_repeating(g, row, col, numbers) ==
  [r1 \in 1 .. size |-> [c1 \in 1 .. size |->
     LET r == r1 - 1
         c == c1 - 1
     IN IF r - row \in 0 .. (box_size - 1) /\ c - col \in 0 .. (box_size - 1)
        THEN numbers[(r - row) + (c - col)]
        ELSE Cell(g, r, c)]]

\* grid[row + i][col + j] = numbers[i * box_size + j], numbers a shuffled
\* list(range(1, 10)), indexed from 0.
fill_box(g, row, col, numbers) ==
  [r1 \in 1 .. size |-> [c1 \in 1 .. size |->
     LET r == r1 - 1
         c == c1 - 1
     IN IF r - row \in 0 .. (box_size - 1) /\ c - col \in 0 .. (box_size - 1)
        THEN numbers[(r - row) * box_size + (c - col)]
        ELSE Cell(g, r, c)]]

\* for box in range(0, size, box_size): _fill_box(grid, box, box), one
\* shuffle per box.
fill_diagonal_boxes(g, shuffles) ==
  fill_box(fill_box(fill_box(g, 0, 0, shuffles[1]),
                    box_size, box_size, shuffles[2]),
           2 * box_size, 2 * box_size, shuffles[3])

\* Outcomes of random.shuffle(numbers) taken: i |-> (a * i + k) mod 9 + 1,
\* for the strides a that make it a permutation.
MaxSeedStride == 2
MaxShift == 1
Shuffles ==
  {[i \in 0 .. (size - 1) |-> ((a * i + k) % size) + 1] :
     a \in {x \in 1 .. MaxSeedStride : x % box_size # 0}, k \in 0 .. MaxShift}

GenerateComplete ==
  /\ pc = "idle"
  /\ \E s1 \in Shuffles, s2 \in Shuffles, s3 \in Shuffles :
       /\ grid' = fill_diagonal_boxes(ZeroGrid, <<s1, s2, s3>>)
       /\ orig' = grid'
  /\ op' = "generate_complete_sudoku"
  /\ work' = "grid" /\ fn' = "solve" /\ pc' = "call"
  /\ UNCHANGED <<grid_copy, stack, ok, count, limit>>
  /\ UNCHANGED genVars /\ UNCHANGED httpVars

\* solve returned; its result is dropped and the grid is returned.
CompleteReturn ==
  /\ pc = "ret" /\ stack = <<>> /\ op = "generate_complete_sudoku"
  /\ pc' = "done"
  /\ UNCHANGED <<grid, grid_copy, work, fn, stack, ok, count, limit, op, orig>>
  /\ UNCHANGED genVars /\ UNCHANGED httpVars

InitGen ==
  /\ grid = ZeroGrid
  /\ request = <<>>
  /\ orig = grid
  /\ pc = "idle"
  /\ InitCommon

NextGen ==
  \/ GenerateComplete
  \/ SolveEnter
  \/ SolveTry
  \/ SolveReturn
  \/ CompleteReturn

SpecGen == InitGen /\ [][NextGen]_vars

\* C6: whatever the three shuffles, generate_complete_sudoku returns a full
\* grid with no repeated digit in a row, column or box, and its solve call
\* returned True.
CompleteGridIsValid ==
  (op = "generate_complete_sudoku" /\ pc = "done") =>
    /\ ok
    /\ Blanks(grid) = {}
    /\ ValidGrid(grid)

\* A grid was completed from three diagonal boxes that are not all filled
\* alike, the 54 other cells by the search.
CompletedFromDistinctBoxes ==
  /\ op = "generate_complete_sudoku" /\ pc = "done"
  /\ Cardinality(Blanks(orig)) = size * size - 3 * size
  /\ Cell(orig, 0, 0) # Cell(orig, box_size, box_size)
  /\ Complete(grid) /\ Agrees(orig, grid)

-----------------------------------------------------------------------------
(* SudokuGenerator.generate_puzzle and _create_puzzle *)

Difficulties == {"easy", "medium", "hard"}

\* generator.py:60-65, the range random.randint draws cells_to_remove from
TargetRange(d) ==
  CASE d = "easy" -> 35 .. 45
    [] d = "medium" -> 46 .. 55
    [] OTHER -> 56 .. 64

Lowest(S) == CHOOSE n \in S : \A m \in S : n <= m
Highest(S) == CHOOSE n \in S : \A m \in S : n >= m

\* Outcomes of random.randint taken: the TargetSpread lowest and the
\* TargetSpread highest values of the range.
TargetSpread == 1
Drawn(S) == {n \in S : n - Lowest(S) < TargetSpread \/ Highest(S) - n < TargetSpread}

\* Outcomes of random.shuffle(positions) taken: from the last cell backwards
\* in steps of s, for the steps that visit every cell.
MaxBackStride == 2
CellAt(k) == <<k \div size, k % size>>
Orders ==
  {[i \in 1 .. (size * size) |->
      CellAt(((size * size - 1) + (size * size - s) * (i - 1)) % (size * size))] :
     s \in {x \in 1 .. MaxBackStride : x % box_size # 0}}

\* The shuffle the three diagonal boxes get on this path: numbers as
\* list(range(1, 10)) leaves it.
Unshuffled == [i \in 0 .. (size - 1) |-> i + 1]

\* generator.py:108-109, solutions_count == 1 (and the variant with >=)
has_any_solution(solutions_count) == solutions_count >= 1
has_unique_solution(solutions_count) == solutions_count = 1

\* generator.py:86, if removed_count >= cells_to_remove: break (and the
\* variant with >)
target_passed(removed, target) == removed > target
target_reached(removed, target) == removed >= target

\* generate_puzzle up to its solve call: generate_complete_sudoku.
GeneratePuzzle(d) ==
  /\ pc = "idle"
  /\ difficulty' = d
  /\ grid' = fill_diagonal_boxes(ZeroGrid, <<Unshuffled, Unshuffled, Unshuffled>>)
  /\ orig' = grid'
  /\ op' = "generate_puzzle"
  /\ work' = "grid" /\ fn' = "solve" /\ pc' = "call"
  /\ UNCHANGED <<grid_copy, stack, ok, count, limit>>
  /\ UNCHANGED <<puzzle, positions, idx, removed_count, cells_to_remove, original_value>>
  /\ UNCHANGED httpVars

\* The complete grid is back: draw cells_to_remove, enter _create_puzzle, copy
\* the grid, shuffle the positions.
CreatePuzzle ==
  /\ pc = "ret" /\ stack = <<>> /\ op = "generate_puzzle" /\ fn = "solve"
  /\ cells_to_remove' \in Drawn(TargetRange(difficulty))
  /\ puzzle' = grid
  /\ positions' \in Orders
  /\ idx' = 0
  /\ removed_count' = 0
  /\ pc' = "carve"
  /\ UNCHANGED <<grid, grid_copy, work, fn, stack, ok, count, limit, op, orig>>
  /\ UNCHANGED <<original_value, difficulty>>
  /\ UNCHANGED httpVars

\* Head of the for loop: leave when the positions are used up or the target
\* is reached; else blank the next position and ask count_solutions(puzzle, 2).
CarveNext ==
  /\ pc = "carve"
  /\ IF idx = Len(positions) \/ target_reached(removed_count, cells_to_remove)
     THEN /\ pc' = "done"
          /\ UNCHANGED <<puzzle, idx, original_value, grid_copy, work, fn, limit>>
     ELSE LET row == positions[idx + 1][1]
              col == positions[idx + 1][2]
          IN /\ idx' = idx + 1
             /\ original_value' = Cell(puzzle, row, col)
             /\ puzzle' = SetCell(puzzle, row, col, 0)
             /\ grid_copy' = puzzle'
             /\ work' = copy_target
             /\ fn' = "count"
             /\ limit' = 2
             /\ pc' = "call"
  /\ UNCHANGED <<grid, stack, ok, count, op, orig>>
  /\ UNCHANGED <<positions, removed_count, cells_to_remove, difficulty>>
  /\ UNCHANGED httpVars

\* count_solutions returned: keep the blank when the solution is unique,
\* else put the digit back.
CarveCheck ==
  /\ pc = "ret" /\ stack = <<>> /\ op = "generate_puzzle" /\ fn = "count"
  /\ LET row == positions[idx][1]
         col == positions[idx][2]
     IN IF has_unique_solution(count)
        THEN /\ removed_count' = removed_count + 1
             /\ UNCHANGED puzzle
        ELSE /\ puzzle' = SetCell(puzzle, row, col, original_value)
             /\ UNCHANGED removed_count
  /\ pc' = "carve"
  /\ UNCHANGED <<grid, grid_copy, work, fn, stack, ok, count, limit, op, orig>>
  /\ UNCHANGED <<positions, idx, cells_to_remove, original_value, difficulty>>
  /\ UNCHANGED httpVars

\* The caller of generate_puzzle asks count_solutions(puzzle, limit=2) of the
\* puzzle it got.
CountReturnedPuzzle ==
  /\ pc = "done" /\ op = "generate_puzzle"
  /\ op' = "count_puzzle"
  /\ limit' = 2
  /\ grid_copy' = puzzle
  /\ work' = copy_target /\ fn' = "count" /\ pc' = "call"
  /\ UNCHANGED <<grid, stack, ok, count, orig>>
  /\ UNCHANGED genVars /\ UNCHANGED httpVars

CountPuzzleReturn ==
  /\ pc = "ret" /\ stack = <<>> /\ op = "count_puzzle"
  /\ pc' = "done"
  /\ UNCHANGED <<grid, grid_copy, work, fn, stack, ok, count, limit, op, orig>>
  /\ UNCHANGED genVars /\ UNCHANGED httpVars

NextPuzzle ==
  \/ \E d \in Difficulties : GeneratePuzzle(d)
  \/ SolveEnter
  \/ SolveTry
  \/ SolveReturn
  \/ CreatePuzzle
  \/ CarveNext
  \/ CountEnter
  \/ CountTry
  \/ CountReturn
  \/ CarveCheck
  \/ CountReturnedPuzzle
  \/ CountPuzzleReturn

SpecPuzzle == InitGen /\ [][NextPuzzle]_vars

-----------------------------------------------------------------------------
(* Claims about the carving loop, under SpecPuzzle *)

AtLoopHead == op = "generate_puzzle" /\ pc \in {"carve", "done"}
InUniquenessCheck == op = "generate_puzzle" /\ fn = "count" /\ pc \in {"call", "loop", "ret"}

\* C5: with a complete valid grid, at the end of every iteration of the
\* carving loop and in the puzzle returned, every digit left in the puzzle is
\* the grid's and the grid is the puzzle's one and only completion; and
\* count_solutions(puzzle, limit=2) of the returned puzzle returns 1.
CarveKeepsUniqueness ==
  /\ (AtLoopHead /\ Complete(grid)) =>
       /\ Agrees(puzzle, grid)
       /\ Small(puzzle) => Completions(puzzle) = {grid}
  /\ (op = "count_puzzle" /\ pc = "done") => count = 1

\* An iteration has just put a digit back: blanking it left more than one
\* completion, and with it restored the grid is again the only one.
CarveRestoredDigit ==
  /\ AtLoopHead /\ pc = "carve" /\ fn = "count"
  /\ count >= 2
  /\ Cell(puzzle, positions[idx][1], positions[idx][2]) = original_value
  /\ original_value # 0
  /\ removed_count > 0
  /\ Small(puzzle) /\ Completions(puzzle) = {grid}

MaxBlanksFor(d) ==
  CASE d = "easy" -> 45
    [] d = "medium" -> 55
    [] OTHER -> 64

-----------------------------------------------------------------------------
(* main.py: the POST /solve handler solve_sudoku *)

\* main.py:47, len(request.grid) != 9 or any(len(row) != 9 for row in request.grid)
BadSize(req) == Len(req) # 9 \/ \E r \in 1 .. Len(req) : Len(req[r]) # 9

\* main.py:51-53, a cell below 0 or above 9 (pydantic has made each cell an int)
BadValue(req) ==
  \E r \in 1 .. Len(req) : \E c \in 1 .. Len(req[r]) : req[r][c] < 0 \/ req[r][c] > 9

\* Requests taken: well-formed grids and grids of a wrong shape or value.
DropLastRow(g) == SubSeq(g, 1, Len(g) - 1)
Requests ==
  { SampleGrid, SolvedGrid, ZeroGrid,
    Blanked(SolvedGrid, {<<3, 5>>, <<3, 8>>, <<4, 5>>, <<4, 8>>}),
    SetCell(Blanked(SolvedGrid, {<<3, 5>>, <<4, 8>>}), 3, 8, 1),
    SetCell(SolvedGrid, 3, 8, 1),
    DropLastRow(SolvedGrid),
    Append(SolvedGrid, SolvedGrid[1]),
    [SolvedGrid EXCEPT ![2] = DropLastRow(SolvedGrid[2])],
    [SolvedGrid EXCEPT ![2] = Append(SolvedGrid[2], 0)],
    SetCell(SolvedGrid, 0, 0, 10),
    SetCell(SampleGrid, 8, 8, -1) }

\* The handler up to solver.solve(grid_copy): the two validations, each
\* raising HTTPException(status_code=400) inside the try block, then the copy.
SolveSudoku ==
  /\ pc = "idle"
  /\ op' = "solve_sudoku"
  /\ IF BadSize(request) \/ BadValue(request)
     THEN /\ exc' = 400
          /\ pc' = "except"
          /\ UNCHANGED <<grid, orig, work, fn, invoked>>
     ELSE /\ grid' = request
          /\ orig' = request
          /\ invoked' = TRUE
          /\ work' = "grid" /\ fn' = "solve" /\ pc' = "call"
          /\ UNCHANGED exc
  /\ UNCHANGED <<grid_copy, stack, ok, count, limit, request, response>>
  /\ UNCHANGED genVars

\* main.py:74-75, except Exception as e: raise HTTPException(status_code=500);
\* HTTPException is an Exception, so the 400 raised in the try block lands here.
HandlerExcept ==
  /\ pc = "except" /\ exc # 0
  /\ response' = [status |-> 500, success |-> FALSE, grid |-> <<>>]
  /\ exc' = 500
  /\ pc' = "done"
  /\ UNCHANGED <<grid, grid_copy, work, fn, stack, ok, count, limit, op, orig>>
  /\ UNCHANGED <<request, invoked>>
  /\ UNCHANGED genVars

\* solver.solve returned: the completed copy with success, or the request's
\* own grid without.
HandlerRespond ==
  /\ pc = "ret" /\ stack = <<>> /\ op = "solve_sudoku"
  /\ response' = IF ok
                 THEN [status |-> 200, success |-> TRUE, grid |-> grid]
                 ELSE [status |-> 200, success |-> FALSE, grid |-> request]
  /\ pc' = "done"
  /\ UNCHANGED <<grid, grid_copy, work, fn, stack, ok, count, limit, op, orig>>
  /\ UNCHANGED <<request, exc, invoked>>
  /\ UNCHANGED genVars

InitHttp ==
  /\ request \in Requests
  /\ grid = ZeroGrid
  /\ orig = grid
  /\ pc = "idle"
  /\ InitCommon

NextHttp ==
  \/ SolveSudoku
  \/ HandlerExcept
  \/ SolveEnter
  \/ SolveTry
  \/ SolveReturn
  \/ HandlerRespond

SpecHttp == InitHttp /\ [][NextHttp]_vars

\* C10: a request whose grid is not 9 rows of 9 cells, or holds a value
\* outside 0..9, is answered with status 400 and the solver is not invoked; a
\* well-formed one is answered success=true with the completed grid when solve
\* succeeds and success=false with the request's grid when it fails.
SolveHandlerContract ==
  (op = "solve_sudoku" /\ pc = "done") =>
    IF BadSize(request) \/ BadValue(request)
    THEN response.status = 400 /\ ~invoked
    ELSE /\ invoked
         /\ ok => response.success /\ response.grid = grid /\ Blanks(grid) = {}
         /\ ~ok => ~response.success /\ response.grid = request

====
